---- MODULE Spec2Model ----
(***************************************************************************)
(* The SignalHire webhook service: batch upload, per-item submission to    *)
(* the provider, correlation of the provider's callbacks back to the       *)
(* batch, and the files the service keeps under DATA_ROOT.                 *)
(*                                                                         *)
(* Handlers are `async def` coroutines: a handler runs without             *)
(* interruption from one `await` to the next, and other handlers run       *)
(* while it is suspended in an `await`.  Each action below is one such     *)
(* uninterrupted stretch of a handler.                                     *)
(***************************************************************************)
EXTENDS Integers, Sequences, FiniteSets, TLC

\* ------------------------------------------------------------------ bounds
MaxUploads == 2      \* upload requests over a run
MaxItems == 2        \* URLs in one uploaded CSV
MaxCallbacks == 2    \* callback deliveries over a run
MaxRid == 2          \* request ids the provider (or a stranger) may use
MaxMinute == 1       \* wall-clock minutes a run spans
MaxSuffix == 1       \* values of the seconds+microseconds part of the clock

Uploads == 1..MaxUploads
Callbacks == 1..MaxCallbacks
RequestIds == 1..MaxRid
BatchIds == 0..MaxSuffix

\* ------------------------------------------------------------ Python values
None == "None"
NoBatch == -1        \* find_batch_by_request(...) is None
NoTotal == -1        \* the record has no "total_items" key
NoRid == 0           \* the delivery carries no Request-Id header
UserEmail == "user@example.org"

\* ------------------------------------------------------- callback payloads
\* A body is unparsable ("malformed") or a JSON value: null, a list of
\* items, one object, or a scalar.  An item that is an object carries the
\* keys flatten_callback_payload reads; isDict = FALSE is a list element that
\* is no object.
NoCand ==
  [present |-> FALSE, uid |-> None, fullName |-> None, full_name |-> None,
   social |-> <<>>, contacts |-> <<>>]
Cand(uid, name, social, contacts) ==
  [present |-> TRUE, uid |-> uid, fullName |-> name, full_name |-> None,
   social |-> social, contacts |-> contacts]
Contact(t, v, s) == [type |-> t, value |-> v, subType |-> s, sub_type |-> None]
Social(t, l) == [type |-> t, link |-> l]
Item(status, item, cand) == [isDict |-> TRUE, status |-> status, item |-> item, candidate |-> cand]
NotAnObject == [isDict |-> FALSE, status |-> None, item |-> None, candidate |-> NoCand]

Malformed == [tag |-> "malformed", items |-> <<>>]
JsonNull == [tag |-> "null", items |-> <<>>]
JsonList(items) == [tag |-> "list", items |-> items]
JsonObject(it) == [tag |-> "object", items |-> <<it>>]
JsonEmptyObject == [tag |-> "object", items |-> <<>>]
JsonScalar == [tag |-> "scalar", items |-> <<NotAnObject>>]
NoPayload == [tag |-> "absent", items |-> <<>>]

\* Python truthiness of a parsed payload (`if not payload`).
Truthy(payload) ==
  CASE payload.tag = "null" -> FALSE
    [] payload.tag = "list" -> payload.items # <<>>
    [] payload.tag = "object" -> payload.items # <<>>
    [] payload.tag = "scalar" -> TRUE
    [] OTHER -> FALSE

\* `x or y` on strings, with None and "" falsy.
OrElse(x, y) == IF x = None \/ x = "" THEN y ELSE x

\* str.lower() on the social types that occur.
Lower(s) ==
  CASE s = "LinkedIn" -> "linkedin"
    [] s = "LI" -> "li"
    [] OTHER -> s

RECURSIVE FirstLinkedIn(_)
FirstLinkedIn(socials) ==
  IF socials = <<>> THEN None
  ELSE IF Lower(OrElse(Head(socials).type, "")) \in {"li", "linkedin"}
       THEN Head(socials).link
       ELSE FirstLinkedIn(Tail(socials))

Row(uid, name, status, url, ct, cv, cs) ==
  [uid |-> uid, full_name |-> name, status |-> status, linkedin_url |-> url,
   contact_type |-> ct, contact_value |-> cv, contact_subtype |-> cs]

\* The rows of one item: one per contact, or one row with null contact fields.
ItemRows(it) ==
  LET cand == it.candidate
      url == OrElse(FirstLinkedIn(cand.social), it.item)
      name == OrElse(cand.fullName, cand.full_name)
  IN IF cand.contacts # <<>>
     THEN [k \in 1..Len(cand.contacts) |->
             Row(cand.uid, name, it.status, url,
                 cand.contacts[k].type, cand.contacts[k].value,
                 OrElse(cand.contacts[k].subType, cand.contacts[k].sub_type))]
     ELSE << Row(cand.uid, name, it.status, url, None, None, None) >>

RECURSIVE FlattenItems(_)
FlattenItems(items) ==
  IF items = <<>> THEN <<>> ELSE ItemRows(Head(items)) \o FlattenItems(Tail(items))

\* flatten_callback_payload raises (AttributeError on `it.get`) when an
\* element it iterates over is no object.
flatten_raises(payload) ==
  Truthy(payload) /\ \E k \in 1..Len(payload.items) : ~payload.items[k].isDict

flatten_callback_payload(payload) ==
  IF ~Truthy(payload) THEN <<>> ELSE FlattenItems(payload.items)

\* ------------------------------------------------------------------ storage
\* status.json of a batch.  file = FALSE is "no status.json", which
\* read_status returns as {}; a key the record lacks reads as its .get default.
NoStatus ==
  [file |-> FALSE, status |-> None, email |-> None, total_items |-> NoTotal,
   pending |-> <<>>, received |-> 0, errors |-> <<>>, submissions |-> <<>>]

new_batch_id(now) == now.suffix

ItemError(i) == [kind |-> "item", item |-> i]
EmailError == [kind |-> "email_error", item |-> 0]
CallbackError == [kind |-> "callback_error", item |-> 0]

\* list.remove(x): drops the first occurrence only.
Remove_Appends(s, x) == Append(s, x)
RECURSIVE Remove(_, _)
Remove(s, x) ==
  IF s = <<>> THEN <<>>
  ELSE IF Head(s) = x THEN Tail(s) ELSE <<Head(s)>> \o Remove(Tail(s), x)

InSeq(x, s) == \E k \in 1..Len(s) : s[k] = x

\* -------------------------------------------------------------------- state
VARIABLES
  now,           \* the wall clock at its last reading: [minute, suffix]
  original_csv,  \* batches/<id>/original.csv: the upload that wrote it, 0 if none
  status_json,   \* batches/<id>/status.json
  results_json,  \* batches/<id>/results.json: request id -> raw payload
  results_csv,   \* batches/<id>/results.csv: the rows under the header
  requests,      \* requests/<rid>.txt: request id -> batch id
  up,            \* the upload handlers
  cb,            \* the callback handlers
  notified,      \* calls of send_result_email per batch
  completed,     \* writes that took status.json to "complete" per batch
  acked,         \* per batch and request id: callbacks applied and answered 200
  email_failed   \* times send_result_email raised, per batch

files == <<original_csv, status_json, results_json, results_csv, requests>>
vars == <<now, original_csv, status_json, results_json, results_csv, requests,
          up, cb, notified, completed, acked, email_failed>>

IdleUpload == [pc |-> "idle", batch_id |-> NoBatch, n |-> 0, i |-> 0, status |-> NoStatus, resp |-> 0]
IdleCallback ==
  [pc |-> "idle", request_id |-> NoRid, body |-> NoPayload, batch_id |-> NoBatch,
   status |-> NoStatus, resp |-> 0]

\* The bodies a delivery may carry.
OneContact ==
  Item("success", "url", Cand("u1", "Ann", <<Social("li", "li-url")>>, <<Contact("email", "a@x", "work")>>))
NoContacts == Item("failed", "url", NoCand)
CallbackBodies == {Malformed, JsonNull, JsonList(<<OneContact>>), JsonScalar}

Init ==
  /\ now = [minute |-> 0, suffix |-> 0]
  /\ original_csv = [b \in BatchIds |-> 0]
  /\ status_json = [b \in BatchIds |-> NoStatus]
  /\ results_json = [b \in BatchIds |-> [r \in RequestIds |-> NoPayload]]
  /\ results_csv = [b \in BatchIds |-> <<>>]
  /\ requests = [r \in RequestIds |-> NoBatch]
  /\ up = [u \in Uploads |-> IdleUpload]
  /\ cb = [c \in Callbacks |-> IdleCallback]
  /\ notified = [b \in BatchIds |-> 0]
  /\ completed = [b \in BatchIds |-> 0]
  /\ acked = [b \in BatchIds |-> [r \in RequestIds |-> 0]]
  /\ email_failed = [b \in BatchIds |-> 0]

\* ---------------------------------------------------------- storage writes
read_status(batch_id) == status_json[batch_id]

\* The new contents of status_json and of the completion count after
\* write_status(batch_id, status).
write_status(sj, batch_id, status) == [sj EXCEPT ![batch_id] = [status EXCEPT !.file = TRUE]]
CountCompletion(batch_id, status) ==
  [completed EXCEPT ![batch_id] =
     IF status.status = "complete" /\ status_json[batch_id].status # "complete" THEN @ + 1 ELSE @]

map_request_to_batch(request_id, batch_id) == [requests EXCEPT ![request_id] = batch_id]
find_batch_by_request(request_id) == IF request_id \in RequestIds THEN requests[request_id] ELSE NoBatch

\* data.setdefault(request_id, payload): the first payload stays.
append_results_json_Overwrites(batch_id, request_id, payload) ==
  [results_json EXCEPT ![batch_id][request_id] = payload]
append_results_json(batch_id, request_id, payload) ==
  [results_json EXCEPT ![batch_id][request_id] = IF @ = NoPayload THEN payload ELSE @]

append_results_csv_Skips(batch_id, rows) == results_csv
append_results_csv(batch_id, rows) == [results_csv EXCEPT ![batch_id] = @ \o rows]
csv_exists(csv, batch_id) == csv[batch_id] # <<>>

\* ------------------------------------------------------------------ upload
Later(t) == t.minute > now.minute \/ (t.minute = now.minute /\ t.suffix >= now.suffix)
Times == [minute : 0..MaxMinute, suffix : 0..MaxSuffix]

\* upload, lines 88-102: no URL in the CSV.  The batch directory and
\* original.csv are written before the CSV is parsed.
UploadEmpty(u) ==
  /\ up[u].pc = "idle"
  /\ IF u = 1 THEN TRUE ELSE up[u - 1].pc # "idle"
  /\ \E t \in Times :
       /\ Later(t)
       /\ now' = t
       /\ original_csv' = [original_csv EXCEPT ![new_batch_id(t)] = u]
       /\ up' = [up EXCEPT ![u] = [IdleUpload EXCEPT !.pc = "done", !.batch_id = new_batch_id(t), !.resp = 400]]
  /\ UNCHANGED <<status_json, results_json, results_csv, requests, cb, notified, completed, acked, email_failed>>

\* upload, lines 88-123: up to the first `await submit_identifier`.
UploadBegin(u) ==
  /\ up[u].pc = "idle"
  /\ IF u = 1 THEN TRUE ELSE up[u - 1].pc # "idle"
  /\ \E t \in Times, n \in 1..MaxItems :
       /\ Later(t)
       /\ now' = t
       /\ original_csv' = [original_csv EXCEPT ![new_batch_id(t)] = u]
       /\ up' = [up EXCEPT ![u] =
            [pc |-> "submit", batch_id |-> new_batch_id(t), n |-> n, i |-> 1, resp |-> 0,
             status |-> [file |-> FALSE, status |-> "processing", email |-> UserEmail,
                         total_items |-> n, pending |-> <<>>, received |-> 0,
                         errors |-> <<>>, submissions |-> <<>>]]]
  /\ UNCHANGED <<status_json, results_json, results_csv, requests, cb, notified, completed, acked, email_failed>>

\* What submit_identifier returns: success with a request id, or a failure.
SubmitResults ==
  [success : {TRUE}, request_id : RequestIds] \cup [success : {FALSE}, request_id : {NoRid}]

\* upload, lines 123-147: submit_identifier returns for item i; the result is
\* recorded in the handler's own `status`; after the last item the handler
\* writes status.json and answers.
UploadSubmitted(u) ==
  /\ up[u].pc = "submit"
  /\ \E res \in SubmitResults :
       LET me == up[u]
           st0 == [me.status EXCEPT !.submissions =
                     Append(@, [item |-> me.i, success |-> res.success, request_id |-> res.request_id])]
           st1 == IF res.success
                  THEN [st0 EXCEPT !.pending = Append(@, res.request_id)]
                  ELSE [st0 EXCEPT !.errors = Append(@, ItemError(me.i))]
       IN /\ requests' = IF res.success THEN map_request_to_batch(res.request_id, me.batch_id)
                         ELSE requests
          /\ IF me.i < me.n
             THEN /\ up' = [up EXCEPT ![u] = [@ EXCEPT !.i = me.i + 1, !.status = st1]]
                  /\ UNCHANGED <<status_json, completed>>
             ELSE /\ status_json' = write_status(status_json, me.batch_id, st1)
                  /\ completed' = CountCompletion(me.batch_id, st1)
                  /\ up' = [up EXCEPT ![u] =
                       [IdleUpload EXCEPT !.pc = "done", !.batch_id = me.batch_id, !.resp = 200]]
  /\ UNCHANGED <<now, original_csv, results_json, results_csv, cb, notified, acked, email_failed>>

\* ---------------------------------------------------------------- callback
Accepted(batch_id, request_id) == [acked EXCEPT ![batch_id][request_id] = @ + 1]

Finish(c, code) == [cb EXCEPT ![c] = [IdleCallback EXCEPT !.pc = "done", !.resp = code]]

\* callback, lines 158-160: no Request-Id header.
CallbackNoHeader(c) ==
  /\ cb[c].pc = "idle"
  /\ IF c = 1 THEN TRUE ELSE cb[c - 1].pc # "idle"
  /\ cb' = Finish(c, 400)
  /\ UNCHANGED <<now, original_csv, status_json, results_json, results_csv, requests,
                 up, notified, completed, acked, email_failed>>

\* callback, lines 158-162: the header is read and the handler awaits the body.
CallbackArrive(c) ==
  /\ cb[c].pc = "idle"
  /\ IF c = 1 THEN TRUE ELSE cb[c - 1].pc # "idle"
  /\ \E rid \in RequestIds, body \in CallbackBodies :
       cb' = [cb EXCEPT ![c] = [@ EXCEPT !.pc = "json", !.request_id = rid, !.body = body]]
  /\ UNCHANGED <<now, original_csv, status_json, results_json, results_csv, requests,
                 up, notified, completed, acked, email_failed>>

\* callback, line 213: st.setdefault("errors", []).append({"callback_error": ...})
\* is RecordCallbackError.
\* callback, lines 205-220: the handler of an unexpected exception.  It adds a
\* callback_error entry to the persisted record of the batch the request id
\* resolves to, then awaits send_error_email when the record has an email.
RecordCallbackError_Dropped(status) == status
RecordCallbackError(status) == [status EXCEPT !.errors = Append(@, CallbackError)]
OnException(c) ==
  LET batch_id == find_batch_by_request(cb[c].request_id)
      st == RecordCallbackError(read_status(batch_id))
  IN IF batch_id = NoBatch
     THEN /\ cb' = Finish(c, 500)
          /\ UNCHANGED <<status_json, completed>>
     ELSE /\ status_json' = write_status(status_json, batch_id, st)
          /\ completed' = CountCompletion(batch_id, st)
          /\ cb' = IF st.email # None
                   THEN [cb EXCEPT ![c] = [@ EXCEPT !.pc = "error_email", !.batch_id = batch_id]]
                   ELSE Finish(c, 500)

\* callback, line 162 raising: the body does not parse.
CallbackMalformed(c) ==
  /\ cb[c].pc = "json"
  /\ cb[c].body = Malformed
  /\ OnException(c)
  /\ UNCHANGED <<now, original_csv, results_json, results_csv, requests, up, notified, acked, email_failed>>

\* callback, lines 162-167: the request id resolves to no batch.
CallbackUnknown(c) ==
  /\ cb[c].pc = "json"
  /\ cb[c].body # Malformed
  /\ find_batch_by_request(cb[c].request_id) = NoBatch
  /\ cb' = Finish(c, 200)
  /\ UNCHANGED <<now, original_csv, status_json, results_json, results_csv, requests,
                 up, notified, completed, acked, email_failed>>

\* callback, lines 162-173 and 205-220: the payload is stored in results.json,
\* then flatten_callback_payload raises.
CallbackFlattenRaises(c) ==
  /\ cb[c].pc = "json"
  /\ cb[c].body # Malformed
  /\ find_batch_by_request(cb[c].request_id) # NoBatch
  /\ flatten_raises(cb[c].body)
  /\ results_json' = append_results_json(find_batch_by_request(cb[c].request_id),
                                         cb[c].request_id, cb[c].body)
  /\ OnException(c)
  /\ UNCHANGED <<now, original_csv, results_csv, requests, up, notified, acked, email_failed>>

\* callback, lines 162-202: the payload is stored and flattened, the rows are
\* appended, and the record is read, changed and written back.  When pending
\* is empty the record is written as complete and, if it has an email and
\* results.csv exists, the handler awaits send_result_email.
CallbackApply(c) ==
  /\ cb[c].pc = "json"
  /\ cb[c].body # Malformed
  /\ find_batch_by_request(cb[c].request_id) # NoBatch
  /\ ~flatten_raises(cb[c].body)
  /\ LET request_id == cb[c].request_id
         batch_id == find_batch_by_request(request_id)
         rows == flatten_callback_payload(cb[c].body)
         csv == append_results_csv(batch_id, rows)
         status0 == read_status(batch_id)
         pending == IF InSeq(request_id, status0.pending)
                    THEN Remove(status0.pending, request_id) ELSE status0.pending
         status1 == [status0 EXCEPT !.pending = pending, !.received = @ + 1]
         status2 == IF pending = <<>> THEN [status1 EXCEPT !.status = "complete"] ELSE status1
         emails == pending = <<>> /\ status2.email # None /\ csv_exists(csv, batch_id)
     IN /\ results_json' = append_results_json(batch_id, request_id, cb[c].body)
        /\ results_csv' = csv
        /\ status_json' = write_status(status_json, batch_id, status2)
        /\ completed' = CountCompletion(batch_id, status2)
        /\ notified' = IF emails THEN [notified EXCEPT ![batch_id] = @ + 1] ELSE notified
        /\ cb' = IF emails
                 THEN [cb EXCEPT ![c] = [@ EXCEPT !.pc = "email", !.batch_id = batch_id,
                                                  !.status = [status2 EXCEPT !.file = TRUE]]]
                 ELSE Finish(c, 200)
        /\ acked' = IF emails THEN acked ELSE Accepted(batch_id, request_id)
  /\ UNCHANGED <<now, original_csv, requests, up, email_failed>>

\* callback, line 196: status.setdefault("errors", []).append({"email_error": ...}).
RecordEmailError_Dropped(status) == status
RecordEmailError(status) == [status EXCEPT !.errors = Append(@, EmailError)]

\* callback, lines 193 and 202: send_result_email returns.
CallbackEmailSent(c) ==
  /\ cb[c].pc = "email"
  /\ cb' = Finish(c, 200)
  /\ acked' = Accepted(cb[c].batch_id, cb[c].request_id)
  /\ UNCHANGED <<now, original_csv, status_json, results_json, results_csv, requests,
                 up, notified, completed, email_failed>>

\* callback, lines 194-202: send_result_email raises; the handler's own copy
\* of the record, with the email error added, is written back.
CallbackEmailFailed(c) ==
  /\ cb[c].pc = "email"
  /\ LET st == RecordEmailError(cb[c].status)
     IN /\ status_json' = write_status(status_json, cb[c].batch_id, st)
        /\ completed' = CountCompletion(cb[c].batch_id, st)
  /\ cb' = Finish(c, 200)
  /\ acked' = Accepted(cb[c].batch_id, cb[c].request_id)
  /\ email_failed' = [email_failed EXCEPT ![cb[c].batch_id] = @ + 1]
  /\ UNCHANGED <<now, original_csv, results_json, results_csv, requests, up, notified>>

\* callback, lines 217-220: send_error_email returns or raises; either way 500.
CallbackErrorEmailDone(c) ==
  /\ cb[c].pc = "error_email"
  /\ cb' = Finish(c, 500)
  /\ UNCHANGED <<now, original_csv, status_json, results_json, results_csv, requests,
                 up, notified, completed, acked, email_failed>>

Next ==
  \/ \E u \in Uploads : UploadEmpty(u)
  \/ \E u \in Uploads : UploadBegin(u)
  \/ \E u \in Uploads : UploadSubmitted(u)
  \/ \E c \in Callbacks : CallbackNoHeader(c)
  \/ \E c \in Callbacks : CallbackArrive(c)
  \/ \E c \in Callbacks : CallbackMalformed(c)
  \/ \E c \in Callbacks : CallbackUnknown(c)
  \/ \E c \in Callbacks : CallbackFlattenRaises(c)
  \/ \E c \in Callbacks : CallbackApply(c)
  \/ \E c \in Callbacks : CallbackEmailSent(c)
  \/ \E c \in Callbacks : CallbackEmailFailed(c)
  \/ \E c \in Callbacks : CallbackErrorEmailDone(c)

Spec == Init /\ [][Next]_vars

\* ------------------------------------------------------- vocabulary of the
\* properties
InFlight(c) == cb[c].pc \in {"json", "email", "error_email"}
Quiet == \A c \in Callbacks : ~InFlight(c)
Started == Cardinality({c \in Callbacks : cb[c].pc # "idle"})

RECURSIVE SumTo(_, _)
SumTo(f, n) == IF n = 0 THEN 0 ELSE f[n] + SumTo(f, n - 1)
AckedTotal(b) == SumTo(acked[b], MaxRid)

\* The handler of callback c leaves its wait for the body in this step.
TakesBody(c) == cb[c].pc = "json" /\ cb'[c].pc # "json"

\* The request ids the provider has returned to upload u so far.
Successes(subs) == SelectSeq(subs, LAMBDA x : x.success)
Issued(u) ==
  IF up[u].pc = "submit" THEN up[u].status.pending
  ELSE IF up[u].pc = "done" /\ up[u].resp = 200
       THEN [k \in 1..Len(Successes(status_json[up[u].batch_id].submissions)) |->
               Successes(status_json[up[u].batch_id].submissions)[k].request_id]
       ELSE <<>>
Distinct(s) == \A i, j \in 1..Len(s) : i # j => s[i] # s[j]

\* No two uploads drew the same batch id and the provider never returned a
\* request id twice.
FreshIds ==
  /\ \A u1, u2 \in Uploads :
       u1 # u2 /\ up[u1].batch_id # NoBatch => up[u1].batch_id # up[u2].batch_id
  /\ \A u \in Uploads : Distinct(Issued(u))
  /\ \A u1, u2 \in Uploads :
       u1 # u2 => \A i \in 1..Len(Issued(u1)) : ~InSeq(Issued(u1)[i], Issued(u2))

\* Every delivery of the run so far was applied to batch b and answered 200,
\* at most one per request id, and no handler is still running.
OnePerId(b) ==
  /\ Quiet
  /\ AckedTotal(b) = Started
  /\ \A r \in RequestIds : acked[b][r] <= 1

UploadDone(b) == \E u \in Uploads : up[u].pc = "done" /\ up[u].resp = 200 /\ up[u].batch_id = b

\* ------------------------------------------------------------------ claims

\* C1: for every batch, whatever callbacks are delivered (duplicates and
\* deliveries after completion included), the record goes from processing to
\* complete at most once and send_result_email is called at most once.
C1_CompleteAndNotifyAtMostOnce ==
  \A b \in BatchIds : completed[b] <= 1 /\ notified[b] <= 1

\* C2: a second delivery of a callback (same Request-Id, same body) that was
\* already applied to a known batch and acknowledged is acknowledged too,
\* leaves `received` unchanged and appends no rows to results.csv.
C2_RedeliveryChangesNothing ==
  [][\A c \in Callbacks :
       LET r == cb[c].request_id
           b == find_batch_by_request(r)
       IN (TakesBody(c) /\ b # NoBatch /\ acked[b][r] >= 1 /\ results_json[b][r] = cb[c].body)
          => /\ status_json'[b].received = status_json[b].received
             /\ results_csv'[b] = results_csv[b]
             /\ cb'[c].pc = "done" => cb'[c].resp = 200]_vars

\* C3: callbacks for distinct registered request ids of one batch lose no
\* update: once all of them are acknowledged, none of their ids is in the
\* persisted pending set and `received` equals their number.
C3_NoLostUpdate ==
  \A b \in BatchIds :
    (FreshIds /\ OnePerId(b))
      => /\ status_json[b].received = AckedTotal(b)
         /\ \A r \in RequestIds : acked[b][r] = 1 => ~InSeq(r, status_json[b].pending)

\* C4: a request id is in the persisted pending set as soon as its submission
\* succeeded, so the first callback for a registered id finds the id in the
\* persisted record, even while the upload loop is still submitting, and
\* once the upload has finished the id of an acknowledged callback is not in
\* the persisted pending set.
C4_PendingRegisteredPerItem ==
  [][\A c \in Callbacks :
       LET r == cb[c].request_id
           b == find_batch_by_request(r)
       IN (TakesBody(c) /\ cb[c].body # Malformed /\ b # NoBatch /\ FreshIds
           /\ results_json[b][r] = NoPayload)
          => /\ InSeq(r, status_json[b].pending)
             /\ (UploadDone(b) /\ cb'[c].pc = "done" /\ cb'[c].resp = 200)
                  => ~InSeq(r, status_json'[b].pending)]_vars

\* C5: a batch of n identifiers whose submissions all succeeded, with exactly
\* one callback per request id, ends with received = n, pending empty,
\* status complete and exactly one notification, whatever the interleaving.
C5_AllCallbacksComplete ==
  \A b \in BatchIds :
    LET st == status_json[b] IN
    (/\ FreshIds /\ UploadDone(b) /\ OnePerId(b)
     /\ Len(Successes(st.submissions)) = st.total_items
     /\ AckedTotal(b) = st.total_items
     /\ \A k \in 1..Len(st.submissions) : acked[b][st.submissions[k].request_id] = 1)
      => /\ st.received = st.total_items
         /\ st.pending = <<>>
         /\ st.status = "complete"
         /\ notified[b] = 1

\* C6: in every reachable state a persisted record is complete exactly when
\* its pending set is empty.
C6_CompleteIffPendingEmpty ==
  \A b \in BatchIds :
    status_json[b].file => (status_json[b].status = "complete" <=> status_json[b].pending = <<>>)

\* C7: in every reachable state `received` plus the number of callback-error
\* entries of a record does not exceed its total_items.
C7_ReceivedWithinTotal ==
  \A b \in BatchIds :
    (status_json[b].file /\ status_json[b].total_items # NoTotal)
      => status_json[b].received
           + Len(SelectSeq(status_json[b].errors, LAMBDA e : e.kind = "callback_error"))
         <= status_json[b].total_items

\* C8: once the persisted status of a batch is complete it stays complete.
C8_CompleteIsTerminal ==
  [][\A b \in BatchIds :
       status_json[b].status = "complete" => status_json'[b].status = "complete"]_vars

\* C9: a callback whose Request-Id resolves to no batch is answered 200 and
\* changes no batch record, result table or payload ledger.
C9_UnknownIdAccepted ==
  [][\A c \in Callbacks :
       (TakesBody(c) /\ find_batch_by_request(cb[c].request_id) = NoBatch)
         => /\ cb'[c].pc = "done" /\ cb'[c].resp = 200
            /\ UNCHANGED <<status_json, results_json, results_csv>>]_vars

\* C10: a callback whose body does not parse, for a Request-Id that resolves
\* to a batch, is answered with a client error (4xx) and changes nothing:
\* the record (error list included), result table and payload ledger of that
\* batch stay as they were.
C10_MalformedRejected ==
  [][\A c \in Callbacks :
       LET b == find_batch_by_request(cb[c].request_id)
       IN (cb[c].body = Malformed /\ b # NoBatch)
          => /\ TakesBody(c)
                  => /\ status_json'[b] = status_json[b]
                     /\ results_json'[b] = results_json[b]
                     /\ results_csv'[b] = results_csv[b]
             /\ (cb[c].pc # "done" /\ cb'[c].pc = "done") => cb'[c].resp \in 400..499]_vars

Last(s) == s[Len(s)]

\* C11: when send_result_email fails, the failure is added to the batch's
\* error list, the persisted status is complete after the handler has
\* recorded it, and the callback that caused the completion is answered 200.
C11_NotificationFailureRecorded ==
  [][\A b \in BatchIds :
       email_failed'[b] # email_failed[b]
         => /\ status_json'[b].status = "complete"
            /\ status_json'[b].errors # <<>>
            /\ Last(status_json'[b].errors) = EmailError
            /\ \E c \in Callbacks :
                 /\ cb[c].pc = "email" /\ cb[c].batch_id = b
                 /\ cb'[c].pc = "done" /\ cb'[c].resp = 200]_vars

\* A notification has failed for a batch whose record is complete and shows
\* the email error.
C11_Witness ==
  \E b \in BatchIds :
    /\ email_failed[b] >= 1
    /\ status_json[b].status = "complete"
    /\ InSeq(EmailError, status_json[b].errors)

Failures(subs) == SelectSeq(subs, LAMBDA x : ~x.success)

\* C12: when some submissions of a batch fail, every failed item is in the
\* batch's error list, the loop has gone on to the remaining items, pending
\* holds request ids of successful submissions only, and the batch is
\* complete once one callback for every successful item has landed.
C12_PartialSubmissionFailure ==
  \A b \in BatchIds :
    LET st == status_json[b]
        ok == Successes(st.submissions)
        bad == Failures(st.submissions)
    IN (FreshIds /\ UploadDone(b) /\ bad # <<>> /\ ok # <<>>)
       => /\ Len(st.submissions) = st.total_items
          /\ \A k \in 1..Len(bad) : InSeq(ItemError(bad[k].item), st.errors)
          /\ \A k \in 1..Len(st.pending) :
               \E j \in 1..Len(ok) : ok[j].request_id = st.pending[k]
          /\ (/\ Quiet
              /\ AckedTotal(b) = Len(ok)
              /\ \A j \in 1..Len(ok) : acked[b][ok[j].request_id] = 1)
               => st.status = "complete"

\* C13: whenever the persisted record of a batch goes to complete, the
\* completion notifier is called for that batch in the same step of the
\* callback handler, whatever the callback payloads contain.
C13_CompletionNotifies ==
  [][\A b \in BatchIds :
       completed'[b] # completed[b] => notified'[b] = notified[b] + 1]_vars

\* ------------------------------------------------------------ status query
\* status, lines 223-228: the answer to GET /status/{batch_id}: 404 when
\* read_status returns {}, else the record.
status(batch_id) ==
  IF ~read_status(batch_id).file
  THEN [code |-> 404, record |-> NoStatus]
  ELSE [code |-> 200, record |-> read_status(batch_id)]

\* C14: from the moment a batch is accepted (its id is generated and one of
\* its request ids resolves in the correlation index), the status query
\* answers with the batch's record and its current error list, not with
\* not-found, also while the submission loop is running.
C14_StatusQueryableMidFlight ==
  \A u \in Uploads :
    LET b == up[u].batch_id IN
    (up[u].pc \in {"submit", "done"} /\ up[u].resp # 400
     /\ \E r \in RequestIds : requests[r] = b)
      => /\ status(b).code = 200
         /\ up[u].pc = "submit"
              => \A k \in 1..Len(up[u].status.errors) :
                   InSeq(up[u].status.errors[k], status(b).record.errors)

\* C15: a step of a callback handler never grows the persisted pending set:
\* afterwards it holds no id it did not hold before, and no more entries.
C15_PendingNeverGrows ==
  [][cb' # cb =>
       \A b \in BatchIds :
         /\ Len(status_json'[b].pending) <= Len(status_json[b].pending)
         /\ \A k \in 1..Len(status_json'[b].pending) :
              InSeq(status_json'[b].pending[k], status_json[b].pending)]_vars

\* A callback has been applied to a record of two items and took one of the
\* two ids out of pending.
C15_Witness ==
  \E b \in BatchIds :
    /\ status_json[b].total_items = 2
    /\ status_json[b].received = 1
    /\ Len(status_json[b].pending) = 1
    /\ AckedTotal(b) >= 1

\* C16: a correlation entry never changes once written: a request id that
\* resolves to a batch resolves to that batch in every later state, also
\* when the provider returns the same request id for a later submission.
C16_CorrelationImmutable ==
  [][\A r \in RequestIds :
       find_batch_by_request(r) # NoBatch => requests'[r] = requests[r]]_vars

\* C17: the raw payload ledger is first-write-wins: a payload stored under a
\* request id is never changed by later deliveries (same or different body),
\* and no entry is ever removed.
C17_LedgerFirstWriteWins ==
  [][\A b \in BatchIds, r \in RequestIds :
       results_json[b][r] # NoPayload => results_json'[b][r] = results_json[b][r]]_vars

\* A delivery whose body differs from the payload already stored under its
\* request id has gone through append_results_json.
C17_Witness ==
  \E c \in Callbacks :
    /\ cb[c].pc \in {"email", "error_email"}
    /\ cb[c].body # Malformed
    /\ results_json[cb[c].batch_id][cb[c].request_id] \notin {NoPayload, cb[c].body}

\* The delivery handled by callback c is applied to a known batch in this
\* step: the body parses, the request id resolves and flattening returns.
Applies(c) ==
  /\ TakesBody(c)
  /\ cb[c].body # Malformed
  /\ find_batch_by_request(cb[c].request_id) # NoBatch
  /\ ~flatten_raises(cb[c].body)

\* C18: every callback payload applied to a known batch adds at least one row
\* to that batch's result table, whatever the payload (null, an empty list
\* and an empty object included).
C18_EveryPayloadYieldsARow ==
  [][\A c \in Callbacks :
       Applies(c)
         => LET b == find_batch_by_request(cb[c].request_id)
            IN Len(results_csv'[b]) >= Len(results_csv[b]) + 1]_vars

\* C20: batch ids are unique: an upload that starts at an instant later than
\* every earlier upload gets a batch id no earlier upload has used, so it
\* finds no original.csv, status record or result table under its id.
C20_BatchIdsUnique ==
  [][\A u \in Uploads :
       (up[u].pc = "idle" /\ up'[u].pc # "idle" /\ now' # now)
         => /\ original_csv[up'[u].batch_id] = 0
            /\ ~status_json[up'[u].batch_id].file
            /\ results_csv[up'[u].batch_id] = <<>>]_vars

\* ------------------------------------------------- flattening on its inputs
\* The payloads flatten_callback_payload is checked on: items with either
\* status, without a candidate or with one whose social links and contacts
\* vary in number, order and spelling of the keys.
WorkEmail == Contact("email", "a@x", "work")
MobilePhone == [type |-> "phone", value |-> "555", subType |-> None, sub_type |-> "mobile"]
FlattenContacts == {<<>>, <<WorkEmail>>, <<WorkEmail, MobilePhone>>, <<MobilePhone, WorkEmail>>}
FlattenSocials ==
  {<<>>, <<Social("fb", "fb-url")>>, <<Social("LinkedIn", "li-url")>>,
   <<Social("fb", "fb-url"), Social("li", "li-url")>>}
FlattenCandidates ==
  {NoCand} \cup {Cand("u1", "Ann", so, co) : so \in FlattenSocials, co \in FlattenContacts}
FlattenItemSet == {Item(st, "ann@x.org", ca) : st \in {"success", "failed"}, ca \in FlattenCandidates}
FlattenPayloads ==
  {JsonNull, JsonEmptyObject, JsonList(<<>>)}
    \cup {JsonObject(it) : it \in FlattenItemSet}
    \cup {JsonList(<<it>>) : it \in FlattenItemSet}
    \cup {JsonList(<<it1, it2>>) : it1 \in FlattenItemSet, it2 \in FlattenItemSet}

\* The state after one upload of one URL, accepted by the provider under
\* request id 1, when the delivery for it has arrived with some payload.
InitFlatten ==
  /\ now = [minute |-> 0, suffix |-> 0]
  /\ original_csv = [b \in BatchIds |-> IF b = 0 THEN 1 ELSE 0]
  /\ status_json = [b \in BatchIds |->
       IF b = 0
       THEN [file |-> TRUE, status |-> "processing", email |-> UserEmail,
             total_items |-> 1, pending |-> <<1>>, received |-> 0, errors |-> <<>>,
             submissions |-> <<[item |-> 1, success |-> TRUE, request_id |-> 1]>>]
       ELSE NoStatus]
  /\ results_json = [b \in BatchIds |-> [r \in RequestIds |-> NoPayload]]
  /\ results_csv = [b \in BatchIds |-> <<>>]
  /\ requests = [r \in RequestIds |-> IF r = 1 THEN 0 ELSE NoBatch]
  /\ up = [u \in Uploads |->
       IF u = 1 THEN [IdleUpload EXCEPT !.pc = "done", !.batch_id = 0, !.resp = 200]
       ELSE IdleUpload]
  /\ \E body \in FlattenPayloads :
       cb = [c \in Callbacks |->
         IF c = 1 THEN [IdleCallback EXCEPT !.pc = "json", !.request_id = 1, !.body = body]
         ELSE IdleCallback]
  /\ notified = [b \in BatchIds |-> 0]
  /\ completed = [b \in BatchIds |-> 0]
  /\ acked = [b \in BatchIds |-> [r \in RequestIds |-> 0]]
  /\ email_failed = [b \in BatchIds |-> 0]

NextFlatten ==
  \/ \E c \in Callbacks : CallbackApply(c)
  \/ \E c \in Callbacks : CallbackEmailSent(c)
  \/ \E c \in Callbacks : CallbackEmailFailed(c)

SpecFlatten == InitFlatten /\ [][NextFlatten]_vars

\* The number of rows the items call for: one per contact, one for an item
\* without contacts.
RowsFor(it) == IF it.candidate.contacts = <<>> THEN 1 ELSE Len(it.candidate.contacts)
RECURSIVE RowCount(_, _)
RowCount(items, k) == IF k = 0 THEN 0 ELSE RowsFor(items[k]) + RowCount(items, k - 1)

\* Item k's rows carry its contacts in their order, with the item's status.
OneRowPerContact(items, rows, k) ==
  LET contacts == items[k].candidate.contacts
  IN \A j \in 1..Len(contacts) :
       LET row == rows[RowCount(items, k - 1) + j]
       IN /\ row.status = items[k].status
          /\ row.contact_type = contacts[j].type
          /\ row.contact_value = contacts[j].value
          /\ row.contact_subtype =
               IF contacts[j].subType \notin {None, ""} THEN contacts[j].subType
               ELSE contacts[j].sub_type

\* Item k without contacts has one row with null contact fields and the
\* item's status.
OneNullRow(items, rows, k) ==
  LET row == rows[RowCount(items, k - 1) + 1]
  IN items[k].candidate.contacts = <<>>
       => /\ row.status = items[k].status
          /\ row.contact_type = None
          /\ row.contact_value = None
          /\ row.contact_subtype = None

\* The row of item k without contacts carries the item's identifier.
IdentifierKept(items, rows, k) ==
  items[k].candidate.contacts = <<>>
    => rows[RowCount(items, k - 1) + 1].linkedin_url = items[k].item

\* The rows a step adds to the result table of batch b.
Added(b) == SubSeq(results_csv'[b], Len(results_csv[b]) + 1, Len(results_csv'[b]))

\* C19: flattening yields one row per contact in the contacts' order, and for
\* an item with zero contacts (or no candidate) exactly one row with null
\* contact type, value and subtype that keeps the item's status and
\* identifier; k items yield the sum over the items of max(1, contacts) rows.
C19_RowsPerContact ==
  [][\A c \in Callbacks :
       Applies(c)
         => LET items == cb[c].body.items
                rows == Added(find_batch_by_request(cb[c].request_id))
            IN /\ Len(rows) = RowCount(items, Len(items))
               /\ \A k \in 1..Len(items) :
                    /\ OneRowPerContact(items, rows, k)
                    /\ OneNullRow(items, rows, k)
                    /\ IdentifierKept(items, rows, k)]_vars

\* The handling of callback c raises in this step (the body does not parse,
\* or flattening raises) and its request id resolves to a batch.
RaisesOnKnown(c) ==
  /\ TakesBody(c)
  /\ find_batch_by_request(cb[c].request_id) # NoBatch
  /\ cb[c].body = Malformed \/ flatten_raises(cb[c].body)

\* C21: an unexpected error while processing a callback whose request id
\* resolves to a batch appends a diagnostic entry to that batch's error list,
\* leaves the record's other fields as they were, and the delivery is
\* answered 500: at once, or after the error email has been attempted.
C21_ErrorRecordedAndRejected ==
  [][\A c \in Callbacks :
       /\ RaisesOnKnown(c)
            => LET b == find_batch_by_request(cb[c].request_id)
               IN /\ status_json'[b] =
                       [status_json[b] EXCEPT !.errors = Append(@, CallbackError), !.file = TRUE]
                  /\ \/ cb'[c].pc = "error_email" /\ cb'[c].batch_id = b
                     \/ cb'[c].pc = "done" /\ cb'[c].resp = 500
       /\ (cb[c].pc = "error_email" /\ cb'[c].pc # "error_email")
            => cb'[c].pc = "done" /\ cb'[c].resp = 500]_vars

\* A delivery has been answered 500 and a batch's record carries the entry.
C21_Witness ==
  /\ \E c \in Callbacks : cb[c].pc = "done" /\ cb[c].resp = 500
  /\ \E b \in BatchIds :
       /\ status_json[b].status = "processing"
       /\ InSeq(CallbackError, status_json[b].errors)

\* C22: the write that records a notification failure loses no update: the
\* record it leaves still has every `received` increment and every error
\* entry that callbacks applied to the batch while send_result_email was in
\* flight, and differs from the persisted record by the new entry alone.
C22_FailureWriteKeepsUpdates ==
  [][\A b \in BatchIds :
       (FreshIds /\ email_failed'[b] # email_failed[b])
         => /\ status_json'[b].received >= status_json[b].received
            /\ Len(status_json'[b].errors) = Len(status_json[b].errors) + 1
            /\ \A k \in 1..Len(status_json[b].errors) :
                 status_json'[b].errors[k] = status_json[b].errors[k]]_vars

IsPrefix(s, t) == Len(s) <= Len(t) /\ SubSeq(t, 1, Len(s)) = s

\* C23: when the completion notifier is invoked for a batch, the result table
\* holds the rows of every callback counted in `received`: rows are never
\* removed from a table, the step that counts a callback leaves the
\* callback's rows at the end of the table, and the notifier is invoked only
\* in such a step, with a table that is not empty.
C23_RowsBeforeNotification ==
  [][\A b \in BatchIds :
       /\ IsPrefix(results_csv[b], results_csv'[b])
       /\ \A c \in Callbacks :
            (Applies(c) /\ find_batch_by_request(cb[c].request_id) = b)
              => /\ Added(b) = flatten_callback_payload(cb[c].body)
                 /\ status_json'[b].received = status_json[b].received + 1
       /\ notified'[b] # notified[b]
            => /\ \E c \in Callbacks :
                    /\ Applies(c)
                    /\ find_batch_by_request(cb[c].request_id) = b
                    /\ cb'[c].pc = "email"
               /\ results_csv'[b] # <<>>]_vars

\* The notifier has been invoked for a batch after two counted callbacks,
\* and the table holds the rows of both.
C23_Witness ==
  \E b \in BatchIds, c \in Callbacks :
    /\ cb[c].pc = "email" /\ cb[c].batch_id = b
    /\ notified[b] = 1
    /\ status_json[b].received = 2
    /\ Len(results_csv[b]) = 2

\* The batch the handler of callback c works on.
BatchOf(c) ==
  IF cb[c].pc = "json" THEN find_batch_by_request(cb[c].request_id) ELSE cb[c].batch_id

\* The status record, result table and raw payload ledger of batch b are
\* left as they were.
Untouched(b) ==
  /\ status_json'[b] = status_json[b]
  /\ results_csv'[b] = results_csv[b]
  /\ results_json'[b] = results_json[b]

\* A step of a callback changes the files of its own batch only.
CallbackIsolated ==
  \A c \in Callbacks :
    cb'[c] # cb[c] => \A b \in BatchIds : b # BatchOf(c) => Untouched(b)

\* A step of an upload leaves alone the files of every batch another upload
\* has created and written the record of.
UploadIsolated ==
  \A u, v \in Uploads :
    (u # v /\ up'[u] # up[u] /\ up[v].pc = "done" /\ up[v].resp = 200)
      => Untouched(up[v].batch_id)

\* C24: batches are isolated: a callback that resolves to batch A and an
\* upload that creates batch A leave the status record, result table and raw
\* payload ledger of every other batch unchanged, under any interleaving.
C24_BatchesIsolated == [][CallbackIsolated /\ UploadIsolated]_vars
====
